---- MODULE Spec2Model ----
(***************************************************************************)
(* The Python binding of Gaffer's Expression node                          *)
(* (src/GafferBindings/ExpressionBinding.cpp) together with the part of    *)
(* the core it drives: the engine registry, the host's setExpression and   *)
(* the evaluation pass.  Threads call the bound functions from Python      *)
(* (holding the interpreter lock, the GIL) or run evaluation passes as     *)
(* graph workers (not holding it).                                         *)
(***************************************************************************)
EXTENDS Integers, Sequences, FiniteSets, TLC

\* ------------------------------------------------------------------ bounds
\* the number of calls (registerEngine, setExpression, evaluation request,
\* input change) a run makes
MaxCalls == 3

\* ------------------------------------------------------------------ universe
Threads == {"t1", "t2"}
Hosts == {"h1", "h2"}
ThreadBefore(u, t) == u = "t1" /\ t = "t2"
HostBefore(g, h) == g = "h1" /\ h = "h2"
NoThread == "none"

\* the binding's default for setExpression's language argument
DefaultLanguage == "python"
LanguageIds == {"python", "osl"}
Texts == {"b", "bc"}
Connectors == {"A", "B", "C"}
InputValues == {0, 5}
Contexts == {1}

\* Python engine classes the embedding code may register a factory for.
\*   Base     : Engine() itself, not subclassed
\*   Bare     : a subclass defining none of parse/execute/apply
\*   Doubler  : defines all three; outputs named by the text
\*   NoExec   : defines parse and apply only
\*   NoApply  : defines parse and execute only
\*   BadParse : defines all three, parse raises
\*   BadExec  : defines all three, execute raises
\*   BadApply : defines all three, apply raises when given connector C
Kinds == {"Base", "Bare", "Doubler", "NoExec", "NoApply", "BadParse", "BadExec",
          "BadApply"}
\* Python callables handed to registerEngine, one per class
Factories == {"mkBase", "mkBare", "mkDoubler", "mkNoExec", "mkNoApply", "mkBadParse",
              "mkBadExec", "mkBadApply"}

FactoryKind(fn) ==
  CASE fn = "mkBase" -> "Base"
    [] fn = "mkBare" -> "Bare"
    [] fn = "mkDoubler" -> "Doubler"
    [] fn = "mkNoExec" -> "NoExec"
    [] fn = "mkNoApply" -> "NoApply"
    [] fn = "mkBadParse" -> "BadParse"
    [] fn = "mkBadExec" -> "BadExec"
    [] fn = "mkBadApply" -> "BadApply"

\* RefCountedWrapper::isSubclassed(): the Python object is of a derived class
isSubclassed(kind) == kind # "Base"

\* RefCountedWrapper::methodOverride( name ): the override, or a null object
methodOverride(kind, name) ==
  CASE kind = "Base" -> FALSE
    [] kind = "Bare" -> FALSE
    [] kind = "Doubler" -> TRUE
    [] kind = "NoExec" -> name # "execute"
    [] kind = "NoApply" -> name # "apply"
    [] kind = "BadParse" -> TRUE
    [] kind = "BadExec" -> TRUE
    [] kind = "BadApply" -> TRUE
    [] OTHER -> FALSE

\* whether calling the Python override raises (error_already_set)
PyRaises(kind, name) ==
  \/ kind = "BadParse" /\ name = "parse"
  \/ kind = "BadExec" /\ name = "execute"

\* whether the Python apply override raises when given this connector
PyApplyRaises(kind, plug) == kind = "BadApply" /\ plug = "C"

\* what a Python parse override puts into its three lists
PyParseInputs(kind, text) == <<"A">>

PyParseOutputs(kind, text) ==
  IF text = "b" THEN <<"B">> ELSE <<"B", "C">>

PyParseContextVariables(kind, text) == <<"frame">>

\* what a Python execute override returns: one value per output, the first
\* twice the first input
PyExecute(kind, context, inputValues, nOutputs) ==
  [i \in 1..nOutputs |-> 2 * inputValues[1] + (i - 1)]

\* ------------------------------------------------------------------ errors
NoError == [type |-> "none", msg |-> ""]
PyError(msg) == [type |-> "python", msg |-> msg]
CoreException(msg) == [type |-> "IECore::Exception", msg |-> msg]
UnknownLanguage == [type |-> "UnknownLanguage", msg |-> "no engine registered"]

NotDefinedMsg(name) ==
  CASE name = "parse" -> "Engine::parse() python method not defined"
    [] name = "execute" -> "Engine::execute() python method not defined"
    [] name = "apply" -> "Engine::apply() python method not defined"

\* the error a Python override raises when it raises
PyRaised(kind, name) ==
  CASE name = "parse" -> PyError("invalid syntax")
    [] name = "execute" -> PyError("division by zero")
    [] name = "apply" -> PyError("cannot set value")

\* GafferBindings::translatePythonException(): throws the core exception
\* carrying the Python exception's message
translatePythonException(pyErr) == CoreException(pyErr.msg)

\* container_utils::extend_container( vec, list ): appends the list's items
extend_container(vec, list) == vec \o list

\* ------------------------------------------------------------------ the lock
\* IECorePython::ScopedGILLock (PyGILState_Ensure): returns at once when the
\* calling thread already holds the interpreter lock, else waits for it
GilCanLock(g, t) == g \in {NoThread, t}

\* a ScopedGILLock that never gives the lock up
GilAfterUnlock_Held(t, nested) == t

\* ~ScopedGILLock (PyGILState_Release): gives the lock up unless the Ensure
\* was nested in a hold of the same thread
GilAfterUnlock(t, nested) == IF nested THEN t ELSE NoThread

\* setExpression without its ScopedGILRelease
setExpressionReleasesGil_Absent == FALSE

\* IECorePython::ScopedGILRelease (PyEval_SaveThread) in setExpression
setExpressionReleasesGil == TRUE

\* the creator without its ScopedGILLock
creatorLocksGil_Absent == FALSE

\* ScopedGILLock in ExpressionEngineCreator::operator()
creatorLocksGil == TRUE

\* ScopedGILLock in EngineWrapper::parse, execute, apply
parseLocksGil == TRUE

executeLocksGil == TRUE

applyLocksGil == TRUE

\* ------------------------------------------------------------------ binding
\* the "language" argument of the bound setExpression: arg( "language" ) = "python"
Omitted == "<omitted>"

ArgLanguage(lang) == IF lang = Omitted THEN DefaultLanguage ELSE lang

\* setExpression( e, expression, language ): the arguments handed to the core
setExpressionArgs(expression, language) == [text |-> expression, language |-> language]

\* a setExpression that swallows the core's exception
setExpressionResult_Swallowed(err) == NoError

\* what the bound setExpression gives its Python caller: it has no handler, so
\* a core exception propagates
setExpressionResult(err) == err

\* a getExpression that builds the tuple the other way round
getExpression_LanguageFirst(h) == <<h.language, h.text>>

\* getExpression( e ): make_tuple( expression, language )
getExpression(h) == <<h.text, h.language>>

\* a creator whose m_fn is not the callable it was given
ExpressionEngineCreator_Unset(fn) == [m_fn |-> "mkBase"]

\* ExpressionEngineCreator( fn ): keeps the Python callable
ExpressionEngineCreator(fn) == [m_fn |-> fn]

\* ExpressionEngineCreator::operator(): the callable it invokes
CreatorInvokes(creator) == creator.m_fn

\* Expression::Engine::registerEngine( engineType, creator ): the registry maps
\* each identifier to one creator; a registration under a used identifier
\* replaces it
CoreRegisterEngine(reg, engineType, creator) ==
  [id \in DOMAIN reg \cup {engineType} |->
     IF id = engineType THEN creator ELSE reg[id]]

\* a registerEngine that leaves an identifier already in use alone
registerEngine_KeepFirst(reg, engineType, fn) ==
  IF engineType \in DOMAIN reg THEN reg
  ELSE CoreRegisterEngine(reg, engineType, ExpressionEngineCreator(fn))

\* EngineWrapper::registerEngine( engineType, creator )
registerEngine(reg, engineType, fn) ==
  CoreRegisterEngine(reg, engineType, ExpressionEngineCreator(fn))

\* all orders in which the elements of a set can be listed
RECURSIVE Orderings(_)
Orderings(S) ==
  IF S = {} THEN {<<>>}
  ELSE UNION {{<<x>> \o rest : rest \in Orderings(S \ {x})} : x \in S}

\* Expression::Engine::registeredEngines( engineTypes ): the keys of the
\* associative registry, in its iteration order
CoreRegisteredEngines(reg) == Orderings(DOMAIN reg)

\* a registeredEngines whose loop starts one item late
registeredEngines_SkipFirst(engineTypes) ==
  [i \in 1..(Len(engineTypes) - 1) |-> engineTypes[i + 1]]

\* a registeredEngines that puts each item in front of the list
registeredEngines_Reversed(engineTypes) ==
  [i \in 1..Len(engineTypes) |-> engineTypes[Len(engineTypes) + 1 - i]]

\* EngineWrapper::registeredEngines(): the vector's items appended in turn
registeredEngines(engineTypes) == [i \in 1..Len(engineTypes) |-> engineTypes[i]]

\* a parse that appends what the override's lists hold even when it raised
parse_KeepsPartial(kind, expression, inputs, outputs, contextVariables) ==
  IF methodOverride(kind, "parse")
  THEN [err |-> IF PyRaises(kind, "parse")
                THEN translatePythonException(PyRaised(kind, "parse"))
                ELSE NoError,
        inputs |-> extend_container(inputs, PyParseInputs(kind, expression)),
        outputs |-> extend_container(outputs, PyParseOutputs(kind, expression)),
        contextVariables |->
          extend_container(contextVariables, PyParseContextVariables(kind, expression))]
  ELSE [err |-> CoreException(NotDefinedMsg("parse")),
        inputs |-> inputs, outputs |-> outputs,
        contextVariables |-> contextVariables]

\* EngineWrapper::parse under the lock: the override is looked up and called,
\* its lists appended to the caller's vectors; an error_already_set is
\* translated; with no override control reaches the final throw
parse(kind, expression, inputs, outputs, contextVariables) ==
  IF methodOverride(kind, "parse")
  THEN IF PyRaises(kind, "parse")
       THEN [err |-> translatePythonException(PyRaised(kind, "parse")),
             inputs |-> inputs, outputs |-> outputs,
             contextVariables |-> contextVariables]
       ELSE [err |-> NoError,
             inputs |-> extend_container(inputs, PyParseInputs(kind, expression)),
             outputs |-> extend_container(outputs, PyParseOutputs(kind, expression)),
             contextVariables |->
               extend_container(contextVariables, PyParseContextVariables(kind, expression))]
  ELSE [err |-> CoreException(NotDefinedMsg("parse")),
        inputs |-> inputs, outputs |-> outputs,
        contextVariables |-> contextVariables]

\* EngineWrapper::parse when the wrapper is not subclassed: the final throw
parseNotSubclassed == CoreException(NotDefinedMsg("parse"))

\* an execute that hands the override a list of zeros for the input plugs
execute_ZeroInputs(kind, context, proxyInputs, nOutputs) ==
  IF methodOverride(kind, "execute")
  THEN IF PyRaises(kind, "execute")
       THEN [err |-> translatePythonException(PyRaised(kind, "execute")), result |-> <<>>]
       ELSE [err |-> NoError,
             result |-> PyExecute(kind, context, [i \in DOMAIN proxyInputs |-> 0], nOutputs)]
  ELSE [err |-> CoreException(NotDefinedMsg("execute")), result |-> <<>>]

\* EngineWrapper::execute under the lock: the override is given the context
\* and the input plugs in the order of proxyInputs, and its result is returned
execute(kind, context, proxyInputs, nOutputs) ==
  IF methodOverride(kind, "execute")
  THEN IF PyRaises(kind, "execute")
       THEN [err |-> translatePythonException(PyRaised(kind, "execute")), result |-> <<>>]
       ELSE [err |-> NoError, result |-> PyExecute(kind, context, proxyInputs, nOutputs)]
  ELSE [err |-> CoreException(NotDefinedMsg("execute")), result |-> <<>>]

executeNotSubclassed == CoreException(NotDefinedMsg("execute"))

\* an apply that returns quietly when there is no override
apply_SilentNoOp(kind, plug) ==
  IF methodOverride(kind, "apply")
  THEN [err |-> NoError, stored |-> TRUE]
  ELSE [err |-> NoError, stored |-> FALSE]

\* an apply whose handler lets control reach the final throw
apply_FallsThrough(kind, plug) ==
  IF methodOverride(kind, "apply") /\ ~PyApplyRaises(kind, plug)
  THEN [err |-> NoError, stored |-> TRUE]
  ELSE [err |-> CoreException(NotDefinedMsg("apply")), stored |-> FALSE]

\* EngineWrapper::apply under the lock: the error, and whether the override
\* ran (it stores the value in the plug)
apply(kind, plug) ==
  IF methodOverride(kind, "apply")
  THEN IF PyApplyRaises(kind, plug)
       THEN [err |-> translatePythonException(PyRaised(kind, "apply")), stored |-> FALSE]
       ELSE [err |-> NoError, stored |-> TRUE]
  ELSE [err |-> CoreException(NotDefinedMsg("apply")), stored |-> FALSE]

applyNotSubclassed == CoreException(NotDefinedMsg("apply"))

\* ------------------------------------------------------------------ state
VARIABLES
  gil,        \* the thread holding the interpreter lock, or NoThread
  pc,         \* where each thread is
  fr,         \* each thread's call frame
  creators,   \* the engine registry: identifier -> creator
  nEngines,   \* the number of Engine instances created so far
  host,       \* each Expression node: text, language, engine, dependencies
  hostLock,   \* the thread whose setExpression or evaluation pass owns a host
  plug,       \* the stored value of each host's connectors
  ret,        \* what the step just taken gave back to its caller, if it returned
  count,      \* calls made so far
  regOrder,   \* history: identifiers in the order they were first registered
  lastFn,     \* history: per identifier, the callable of the latest registration
              \* and the callables registered under it before
  lastSet     \* history: per host, the latest setExpression the core began: what
              \* its caller asked for, the outputs its parse declared, and the
              \* outputs of the expressions it superseded

vars == <<gil, pc, fr, creators, nEngines, host, hostLock, plug, ret, count,
          regOrder, lastFn, lastSet>>

\* no Engine instance; an instance is [id, kind, fn, text]: its number, its
\* Python class, the callable that made it, the text it was made for
NoEngine == [id |-> 0, kind |-> "none", fn |-> "none", text |-> ""]

\* the outcome of the latest call of an Engine method through the wrapper
NoCall == [name |-> "none", kind |-> "none", err |-> NoError]

\* history kept in a frame: what the Python caller of setExpression passed, and
\* (before) the connector values of the host when its evaluation pass began
NoAsk == [text |-> "", language |-> "", registered |-> FALSE]

NoRegistration == [fn |-> "none", earlier |-> {}]

EmptyFrame ==
  [op |-> "none", host |-> "none", text |-> "", language |-> "",
   asked |-> NoAsk, registered |-> FALSE, expect |-> NoRegistration,
   calledFn |-> "none",
   engine |-> NoEngine, nested |-> FALSE, err |-> NoError,
   inputs |-> <<>>, outputs |-> <<>>, contextVariables |-> <<>>,
   context |-> 0, vals |-> <<>>, result |-> <<>>, i |-> 0, applied |-> 0,
   before |-> <<>>, call |-> NoCall]

NoRet == [thread |-> NoThread, op |-> "none"]

\* a host with no expression
EmptyHost ==
  [text |-> "", language |-> "", engine |-> NoEngine, state |-> "Empty",
   inputs |-> <<>>, outputs |-> <<>>, contextVariables |-> <<>>]

NoSet == [text |-> "", language |-> "", registered |-> FALSE, declared |-> {},
          superseded |-> {}]

\* what the embedding code has registered when the run starts: nothing yet, or
\* its Python engine under the default language
InitialRegistrations == {<<>>, [id \in {DefaultLanguage} |-> "mkDoubler"]}

Init ==
  /\ gil = NoThread
  /\ pc = [t \in Threads |-> "idle"]
  /\ fr = [t \in Threads |-> EmptyFrame]
  /\ \E r \in InitialRegistrations :
       /\ creators = [id \in DOMAIN r |-> ExpressionEngineCreator(r[id])]
       /\ lastFn = [id \in DOMAIN r |-> [fn |-> r[id], earlier |-> {}]]
       /\ regOrder = IF r = <<>> THEN <<>> ELSE <<DefaultLanguage>>
  /\ nEngines = 0
  /\ host = [h \in Hosts |-> EmptyHost]
  /\ hostLock = [h \in Hosts |-> NoThread]
  /\ plug = [h \in Hosts |-> [c \in Connectors |-> 0]]
  /\ ret = NoRet
  /\ count = 0
  /\ lastSet = [h \in Hosts |-> NoSet]

\* ------------------------------------------------------------------ callers
\* An idle thread keeps nothing from its earlier calls and a host nobody has
\* used is like any other, so a call is made by the first idle thread and the
\* hosts are taken into use in order: every run is one of these up to the
\* names of its threads and hosts.
FirstIdle(t) == \A u \in Threads : (pc[u] = "idle" /\ u # t) => ~ThreadBefore(u, t)

Used(h) == lastSet[h] # NoSet \/ \E u \in Threads : fr[u].host = h

NextHost(h) == \A g \in Hosts : HostBefore(g, h) => Used(g)

\* ------------------------------------------------------------------ registry calls
\* Python calls Engine.registerEngine( engineType, creator ); the caller holds
\* the interpreter lock throughout
RegisterEngine(t, engineType, fn) ==
  /\ pc[t] = "idle"
  /\ FirstIdle(t)
  /\ gil = NoThread
  /\ count < MaxCalls
  /\ creators' = registerEngine(creators, engineType, fn)
  /\ regOrder' = IF engineType \in DOMAIN lastFn THEN regOrder
                 ELSE Append(regOrder, engineType)
  /\ lastFn' = [id \in DOMAIN lastFn \cup {engineType} |->
                  IF id # engineType THEN lastFn[id]
                  ELSE [fn |-> fn,
                        earlier |-> IF id \in DOMAIN lastFn
                                    THEN lastFn[id].earlier \cup {lastFn[id].fn}
                                    ELSE {}]]
  /\ count' = count + 1
  /\ ret' = [thread |-> t, op |-> "registerEngine", engineType |-> engineType,
             fn |-> fn]
  /\ UNCHANGED <<gil, pc, fr, nEngines, host, hostLock, plug, lastSet>>

\* Python calls Engine.registeredEngines()
RegisteredEngines(t) ==
  /\ pc[t] = "idle"
  /\ FirstIdle(t)
  /\ gil = NoThread
  /\ \E engineTypes \in CoreRegisteredEngines(creators) :
       ret' = [thread |-> t, op |-> "registeredEngines", vector |-> engineTypes,
               value |-> registeredEngines(engineTypes),
               registered |-> DOMAIN lastFn, order |-> regOrder,
             twice |-> {id \in DOMAIN lastFn : lastFn[id].earlier # {}}]
  /\ UNCHANGED <<gil, pc, fr, creators, nEngines, host, hostLock, plug, count,
                 regOrder, lastFn, lastSet>>

\* Python calls Expression.getExpression()
GetExpression(t, h) ==
  /\ NextHost(h)
  /\ pc[t] = "idle"
  /\ FirstIdle(t)
  /\ gil = NoThread
  /\ ret' = [thread |-> t, op |-> "getExpression", host |-> h,
             value |-> getExpression(host[h]), after |-> lastSet[h],
             quiet |-> \A u \in Threads :
                         ~(fr[u].op = "setExpression" /\ fr[u].host = h)]
  /\ UNCHANGED <<gil, pc, fr, creators, nEngines, host, hostLock, plug, count,
                 regOrder, lastFn, lastSet>>

\* the graph's user stores a value in a host's input connector
SetInput(h, v) ==
  /\ NextHost(h)
  /\ count < MaxCalls
  /\ hostLock[h] = NoThread
  /\ plug[h]["A"] # v
  /\ plug' = [plug EXCEPT ![h]["A"] = v]
  /\ count' = count + 1
  /\ ret' = NoRet
  /\ UNCHANGED <<gil, pc, fr, creators, nEngines, host, hostLock, regOrder, lastFn, lastSet>>

\* ------------------------------------------------------------------ setExpression
\* Python calls Expression.setExpression( expression, language ): the calling
\* thread runs Python, so it holds the interpreter lock
CallSetExpression(t, h, expression, language) ==
  /\ NextHost(h)
  /\ pc[t] = "idle"
  /\ FirstIdle(t)
  /\ gil = NoThread
  /\ count < MaxCalls
  /\ gil' = t
  /\ pc' = [pc EXCEPT ![t] = "se_enter"]
  /\ LET a == setExpressionArgs(expression, ArgLanguage(language)) IN
       fr' = [fr EXCEPT ![t] =
                [EmptyFrame EXCEPT !.op = "setExpression", !.host = h,
                   !.text = a.text, !.language = a.language,
                   !.asked = [text |-> expression,
                              language |-> IF language = Omitted THEN "python"
                                           ELSE language,
                              registered |-> language \in DOMAIN lastFn
                                 \/ (language = Omitted /\ "python" \in DOMAIN lastFn)]]]
  /\ count' = count + 1
  /\ ret' = NoRet
  /\ UNCHANGED <<creators, nEngines, host, hostLock, plug, regOrder, lastFn, lastSet>>

\* setExpression: ScopedGILRelease gilRelease
SetExpressionRelease(t) ==
  /\ pc[t] = "se_enter"
  /\ gil' = IF setExpressionReleasesGil THEN NoThread ELSE gil
  /\ pc' = [pc EXCEPT ![t] = "se_core"]
  /\ ret' = NoRet
  /\ UNCHANGED <<fr, creators, nEngines, host, hostLock, plug, count, regOrder, lastFn, lastSet>>

\* a host that never makes a setExpression or a pass wait
HostFree_Always(h) == TRUE

\* a host is free for a setExpression or an evaluation pass when no other owns
\* it: setExpression happens before the parse, the parse before any pass that
\* uses its dependencies
HostFree(h) == hostLock[h] = NoThread

\* the connectors of a sequence
Range(s) == {s[i] : i \in 1..Len(s)}

\* Expression::setExpression begins: new text and language, the Engine and the
\* dependency sets discarded, the host Empty
HostOnSetExpression(h, text, language) ==
  [EmptyHost EXCEPT !.text = text, !.language = language]

CoreSetExpressionBegin(t) ==
  /\ pc[t] = "se_core"
  /\ HostFree(fr[t].host)
  /\ hostLock' = [hostLock EXCEPT ![fr[t].host] = t]
  /\ host' = [host EXCEPT ![fr[t].host] =
                HostOnSetExpression(@, fr[t].text, fr[t].language)]
  /\ lastSet' = [lastSet EXCEPT ![fr[t].host] =
                   [text |-> fr[t].asked.text, language |-> fr[t].asked.language,
                    registered |-> fr[t].asked.registered, declared |-> {},
                    superseded |-> @.superseded \cup @.declared]]
  /\ pc' = [pc EXCEPT ![t] = "se_create"]
  /\ ret' = NoRet
  /\ UNCHANGED <<gil, fr, creators, nEngines, plug, count, regOrder, lastFn>>

\* Expression::Engine::create( language ): the registry is looked up
EngineCreate(t) ==
  /\ pc[t] = "se_create"
  /\ IF fr[t].language \in DOMAIN creators
     THEN /\ fr' = [fr EXCEPT ![t].registered = TRUE,
                              ![t].expect = lastFn[fr[t].language],
                              ![t].calledFn = CreatorInvokes(creators[fr[t].language])]
          /\ pc' = [pc EXCEPT ![t] = "fn_lock"]
     ELSE /\ fr' = [fr EXCEPT ![t].err = UnknownLanguage]
          /\ pc' = [pc EXCEPT ![t] = "se_finish"]
  /\ ret' = NoRet
  /\ UNCHANGED <<gil, creators, nEngines, host, hostLock, plug, count, regOrder, lastFn,
                 lastSet>>

\* ExpressionEngineCreator::operator(): ScopedGILLock gilLock
CreatorLock(t) ==
  /\ pc[t] = "fn_lock"
  /\ creatorLocksGil => GilCanLock(gil, t)
  /\ gil' = IF creatorLocksGil THEN t ELSE gil
  /\ fr' = [fr EXCEPT ![t].nested = (gil = t)]
  /\ pc' = [pc EXCEPT ![t] = "fn_py"]
  /\ ret' = NoRet
  /\ UNCHANGED <<creators, nEngines, host, hostLock, plug, count, regOrder, lastFn, lastSet>>

\* a callable that hands out again the instance it made first
EngineOf_MadeOnce(n, fn, text) ==
  [id |-> 1, kind |-> FactoryKind(fn), fn |-> fn, text |-> text]

\* the Engine instance a factory call gives: its number, its Python class, the
\* callable that made it, the text it was made for
EngineOf(n, fn, text) == [id |-> n, kind |-> FactoryKind(fn), fn |-> fn, text |-> text]

\* ExpressionEngineCreator::operator(): m_fn() makes the Engine, the lock is
\* given up, and the host takes the instance
CreatorCall(t) ==
  /\ pc[t] = "fn_py"
  /\ LET e == EngineOf(nEngines + 1, fr[t].calledFn, fr[t].text)
     IN  /\ fr' = [fr EXCEPT ![t].engine = e, ![t].nested = FALSE]
         /\ host' = [host EXCEPT ![fr[t].host].engine = e]
  /\ nEngines' = nEngines + 1
  /\ gil' = IF creatorLocksGil THEN GilAfterUnlock(t, fr[t].nested) ELSE gil
  /\ pc' = [pc EXCEPT ![t] = "parse_lock"]
  /\ ret' = NoRet
  /\ UNCHANGED <<creators, hostLock, plug, count, regOrder, lastFn, lastSet>>

\* EngineWrapper::parse: isSubclassed(), then ScopedGILLock gilLock
ParseLock(t) ==
  /\ pc[t] = "parse_lock"
  /\ LET kind == fr[t].engine.kind IN
       IF isSubclassed(kind)
       THEN /\ parseLocksGil => GilCanLock(gil, t)
            /\ gil' = IF parseLocksGil THEN t ELSE gil
            /\ fr' = [fr EXCEPT ![t].nested = (gil = t)]
            /\ pc' = [pc EXCEPT ![t] = "parse_py"]
       ELSE /\ gil' = gil
            /\ fr' = [fr EXCEPT ![t].err = parseNotSubclassed,
                                ![t].call = [name |-> "parse", kind |-> kind,
                                             err |-> parseNotSubclassed]]
            /\ pc' = [pc EXCEPT ![t] = "se_finish"]
  /\ ret' = NoRet
  /\ UNCHANGED <<creators, nEngines, host, hostLock, plug, count, regOrder, lastFn, lastSet>>

\* EngineWrapper::parse: the override runs and the lock is given up
ParseCall(t) ==
  /\ pc[t] = "parse_py"
  /\ LET kind == fr[t].engine.kind
         r == parse(kind, fr[t].text, <<>>, <<>>, <<>>)
     IN  fr' = [fr EXCEPT ![t].err = r.err, ![t].inputs = r.inputs,
                          ![t].outputs = r.outputs,
                          ![t].contextVariables = r.contextVariables,
                          ![t].nested = FALSE,
                          ![t].call = [name |-> "parse", kind |-> kind, err |-> r.err]]
  /\ gil' = IF parseLocksGil THEN GilAfterUnlock(t, fr[t].nested) ELSE gil
  /\ pc' = [pc EXCEPT ![t] = "se_finish"]
  /\ ret' = NoRet
  /\ UNCHANGED <<creators, nEngines, host, hostLock, plug, count, regOrder, lastFn, lastSet>>

\* Expression::setExpression ends: Parsed with the discovered dependencies, or
\* ParseFailed (no Engine, no dependencies), or still Empty when the language
\* is unknown
HostAfterSetExpression(h, f) ==
  IF f.err = NoError
  THEN [h EXCEPT !.state = "Parsed", !.inputs = f.inputs, !.outputs = f.outputs,
                 !.contextVariables = f.contextVariables]
  ELSE IF f.err = UnknownLanguage
  THEN h
  ELSE [h EXCEPT !.state = "ParseFailed", !.engine = NoEngine]

CoreSetExpressionFinish(t) ==
  /\ pc[t] = "se_finish"
  /\ host' = [host EXCEPT ![fr[t].host] = HostAfterSetExpression(@, fr[t])]
  /\ hostLock' = [hostLock EXCEPT ![fr[t].host] = NoThread]
  /\ lastSet' = [lastSet EXCEPT ![fr[t].host].declared =
                   IF fr[t].err = NoError THEN Range(fr[t].outputs) ELSE {}]
  /\ pc' = [pc EXCEPT ![t] = "se_restore"]
  /\ ret' = NoRet
  /\ UNCHANGED <<gil, fr, creators, nEngines, plug, count, regOrder, lastFn>>

\* setExpression returns: ~ScopedGILRelease takes the interpreter lock again
SetExpressionRestore(t) ==
  /\ pc[t] = "se_restore"
  /\ GilCanLock(gil, t)
  /\ gil' = t
  /\ ret' = [thread |-> t, op |-> "setExpression", host |-> fr[t].host,
             asked |-> fr[t].asked, registered |-> fr[t].registered,
             err |-> setExpressionResult(fr[t].err)]
  /\ pc' = [pc EXCEPT ![t] = "py_ret"]
  /\ UNCHANGED <<fr, creators, nEngines, host, hostLock, plug, count, regOrder,
                 lastFn, lastSet>>

\* the Python caller carries on and, done, lets the interpreter lock go
PyReturn(t) ==
  /\ pc[t] = "py_ret"
  /\ gil' = NoThread
  /\ fr' = [fr EXCEPT ![t] = EmptyFrame]
  /\ pc' = [pc EXCEPT ![t] = "idle"]
  /\ ret' = NoRet
  /\ UNCHANGED <<creators, nEngines, host, hostLock, plug, count, regOrder, lastFn, lastSet>>

\* ------------------------------------------------------------------ evaluation
\* the values of the connectors named by a sequence
ValuesOf(h, cs) == [i \in 1..Len(cs) |-> plug[h][cs[i]]]

\* a scheduler that also evaluates a host whose parse failed
Schedulable_AlsoFailed(h) == h.state \in {"Parsed", "ParseFailed"}

\* a host is evaluated only when Parsed
Schedulable(h) == h.state = "Parsed"

\* the scheduler asks for an evaluation pass of a host, on a worker thread
EvalRequest(t, h, context) ==
  /\ NextHost(h)
  /\ pc[t] = "idle"
  /\ FirstIdle(t)
  /\ count < MaxCalls
  /\ HostFree(h)
  /\ count' = count + 1
  /\ IF Schedulable(host[h])
     THEN /\ hostLock' = [hostLock EXCEPT ![h] = t]
          /\ fr' = [fr EXCEPT ![t] =
                      [EmptyFrame EXCEPT !.op = "eval", !.host = h,
                         !.engine = host[h].engine, !.text = host[h].text,
                         !.inputs = host[h].inputs, !.outputs = host[h].outputs,
                         !.context = context, !.before = plug[h],
                         !.vals = ValuesOf(h, host[h].inputs)]]
          /\ pc' = [pc EXCEPT ![t] = "ex_lock"]
          /\ ret' = NoRet
     ELSE /\ ret' = [thread |-> t, op |-> "eval", host |-> h, skipped |-> TRUE,
                     err |-> NoError, kind |-> "none", executed |-> FALSE,
                     applied |-> 0]
          /\ UNCHANGED <<hostLock, fr, pc>>
  /\ UNCHANGED <<gil, creators, nEngines, host, plug, regOrder, lastFn, lastSet>>

\* EngineWrapper::execute: isSubclassed(), then ScopedGILLock gilLock
ExecuteLock(t) ==
  /\ pc[t] = "ex_lock"
  /\ LET kind == fr[t].engine.kind IN
       IF isSubclassed(kind)
       THEN /\ executeLocksGil => GilCanLock(gil, t)
            /\ gil' = IF executeLocksGil THEN t ELSE gil
            /\ fr' = [fr EXCEPT ![t].nested = (gil = t)]
            /\ pc' = [pc EXCEPT ![t] = "ex_py"]
       ELSE /\ gil' = gil
            /\ fr' = [fr EXCEPT ![t].err = executeNotSubclassed,
                                ![t].call = [name |-> "execute", kind |-> kind,
                                             err |-> executeNotSubclassed]]
            /\ pc' = [pc EXCEPT ![t] = "ev_finish"]
  /\ ret' = NoRet
  /\ UNCHANGED <<creators, nEngines, host, hostLock, plug, count, regOrder, lastFn, lastSet>>

\* EngineWrapper::execute: the override runs, the lock is given up; the host
\* is Executed when it gave a result
ExecuteCall(t) ==
  /\ pc[t] = "ex_py"
  /\ LET kind == fr[t].engine.kind
         r == execute(kind, fr[t].context, fr[t].vals, Len(fr[t].outputs))
     IN  /\ fr' = [fr EXCEPT ![t].err = r.err, ![t].result = r.result,
                             ![t].i = IF r.err = NoError THEN 1 ELSE 0,
                             ![t].nested = FALSE,
                             ![t].call = [name |-> "execute", kind |-> kind,
                                          err |-> r.err]]
         /\ host' = IF r.err = NoError
                    THEN [host EXCEPT ![fr[t].host].state = "Executed"]
                    ELSE host
         /\ pc' = [pc EXCEPT ![t] = IF r.err = NoError THEN "ap_lock" ELSE "ev_finish"]
  /\ gil' = IF executeLocksGil THEN GilAfterUnlock(t, fr[t].nested) ELSE gil
  /\ ret' = NoRet
  /\ UNCHANGED <<creators, nEngines, hostLock, plug, count, regOrder, lastFn, lastSet>>

\* an override that stores the value in the connector of that name of every host
PlugAfterApply_EveryHost(p, h, c, v) == [g \in Hosts |-> [p[g] EXCEPT ![c] = v]]

\* an override that stores the value in every output of the host
PlugAfterApply_EveryOutput(p, h, c, v) ==
  [p EXCEPT ![h] = [d \in Connectors |-> IF d \in Range(host[h].outputs) THEN v
                                         ELSE p[h][d]]]

\* f( plug, value ): the apply override stores the value in the plug it is given
PlugAfterApply(p, h, c, v) == [p EXCEPT ![h][c] = v]

\* EngineWrapper::apply for the next output: isSubclassed(), then
\* ScopedGILLock gilLock
ApplyLock(t) ==
  /\ pc[t] = "ap_lock"
  /\ LET kind == fr[t].engine.kind IN
       IF isSubclassed(kind)
       THEN /\ applyLocksGil => GilCanLock(gil, t)
            /\ gil' = IF applyLocksGil THEN t ELSE gil
            /\ fr' = [fr EXCEPT ![t].nested = (gil = t)]
            /\ pc' = [pc EXCEPT ![t] = "ap_py"]
       ELSE /\ gil' = gil
            /\ fr' = [fr EXCEPT ![t].err = applyNotSubclassed,
                                ![t].call = [name |-> "apply", kind |-> kind,
                                             err |-> applyNotSubclassed]]
            /\ pc' = [pc EXCEPT ![t] = "ev_finish"]
  /\ ret' = NoRet
  /\ UNCHANGED <<creators, nEngines, host, hostLock, plug, count, regOrder, lastFn, lastSet>>

\* EngineWrapper::apply: the override stores the value in the plug it is
\* given, the lock is given up; after the last output the host is Applied
ApplyCall(t) ==
  /\ pc[t] = "ap_py"
  /\ LET kind == fr[t].engine.kind
         h == fr[t].host
         i == fr[t].i
         r == apply(kind, fr[t].outputs[i])
         last == i = Len(fr[t].outputs)
     IN  /\ plug' = IF r.stored
                    THEN PlugAfterApply(plug, h, fr[t].outputs[i], fr[t].result[i])
                    ELSE plug
         /\ fr' = [fr EXCEPT ![t].err = r.err, ![t].nested = FALSE,
                             ![t].i = IF r.err = NoError THEN i + 1 ELSE i,
                             ![t].applied = IF r.stored THEN @ + 1 ELSE @,
                             ![t].call = [name |-> "apply", kind |-> kind,
                                          err |-> r.err]]
         /\ host' = IF r.err = NoError /\ last
                    THEN [host EXCEPT ![h].state = "Applied"]
                    ELSE host
         /\ pc' = [pc EXCEPT ![t] = IF r.err = NoError /\ ~last
                                    THEN "ap_lock" ELSE "ev_finish"]
  /\ gil' = IF applyLocksGil THEN GilAfterUnlock(t, fr[t].nested) ELSE gil
  /\ ret' = [thread |-> t, op |-> "apply", host |-> fr[t].host,
             kind |-> fr[t].engine.kind, plug |-> fr[t].outputs[fr[t].i],
             stored |-> apply(fr[t].engine.kind, fr[t].outputs[fr[t].i]).stored,
             err |-> apply(fr[t].engine.kind, fr[t].outputs[fr[t].i]).err]
  /\ UNCHANGED <<creators, nEngines, hostLock, count, regOrder, lastFn, lastSet>>

\* a pass whose error also ends the passes of the other hosts under way
EvalFinish_AbortsOthers(t) ==
  /\ pc[t] = "ev_finish"
  /\ LET stopped == {t} \cup {u \in Threads : fr[t].err # NoError /\ fr[u].op = "eval"}
         freed == {fr[u].host : u \in stopped}
     IN  /\ host' = [h \in Hosts |-> IF h \in freed THEN [host[h] EXCEPT !.state = "Parsed"]
                                     ELSE host[h]]
         /\ hostLock' = [h \in Hosts |-> IF h \in freed THEN NoThread ELSE hostLock[h]]
         /\ fr' = [u \in Threads |-> IF u \in stopped THEN EmptyFrame ELSE fr[u]]
         /\ pc' = [u \in Threads |-> IF u \in stopped THEN "idle" ELSE pc[u]]
         /\ gil' = IF gil \in stopped THEN NoThread ELSE gil
  /\ ret' = [thread |-> t, op |-> "eval", host |-> fr[t].host, skipped |-> FALSE,
             err |-> fr[t].err, kind |-> fr[t].engine.kind,
             executed |-> fr[t].i > 0, applied |-> fr[t].applied,
             before |-> fr[t].before]
  /\ UNCHANGED <<creators, nEngines, plug, count, regOrder, lastFn, lastSet>>

\* the pass ends: an error is reported, the host is Parsed again and free
EvalFinish(t) ==
  /\ pc[t] = "ev_finish"
  /\ host' = [host EXCEPT ![fr[t].host].state = "Parsed"]
  /\ hostLock' = [hostLock EXCEPT ![fr[t].host] = NoThread]
  /\ ret' = [thread |-> t, op |-> "eval", host |-> fr[t].host, skipped |-> FALSE,
             err |-> fr[t].err, kind |-> fr[t].engine.kind,
             executed |-> fr[t].i > 0, applied |-> fr[t].applied,
             before |-> fr[t].before]
  /\ fr' = [fr EXCEPT ![t] = EmptyFrame]
  /\ pc' = [pc EXCEPT ![t] = "idle"]
  /\ UNCHANGED <<gil, creators, nEngines, plug, count, regOrder, lastFn, lastSet>>

\* ------------------------------------------------------------------ specification
\* the next step of a thread inside a call
Step(t) ==
  \/ SetExpressionRelease(t)
  \/ CoreSetExpressionBegin(t)
  \/ EngineCreate(t)
  \/ CreatorLock(t)
  \/ CreatorCall(t)
  \/ ParseLock(t)
  \/ ParseCall(t)
  \/ CoreSetExpressionFinish(t)
  \/ SetExpressionRestore(t)
  \/ PyReturn(t)
  \/ ExecuteLock(t)
  \/ ExecuteCall(t)
  \/ ApplyLock(t)
  \/ ApplyCall(t)
  \/ EvalFinish(t)

Next ==
  \/ \E t \in Threads, id \in LanguageIds, fn \in Factories : RegisterEngine(t, id, fn)
  \/ \E t \in Threads : RegisteredEngines(t)
  \/ \E t \in Threads, h \in Hosts : GetExpression(t, h)
  \/ \E h \in Hosts, v \in InputValues : SetInput(h, v)
  \/ \E t \in Threads, h \in Hosts, x \in Texts, l \in LanguageIds \cup {Omitted} :
       CallSetExpression(t, h, x, l)
  \/ \E t \in Threads, h \in Hosts, c \in Contexts : EvalRequest(t, h, c)
  \/ \E t \in Threads : Step(t)

Spec == Init /\ [][Next]_vars

\* a thread that can take its next step is scheduled in the end; a thread
\* waiting for a lock takes it once it stays free
FairSpec == Spec /\ \A t \in Threads : WF_vars(Step(t))

\* ------------------------------------------------------------------ a graph set up
\* the calls followed from a graph already set up
PassCalls == 2

\* factories whose Engine parses but whose evaluation pass fails
PassFactories == {"mkNoApply", "mkBadExec", "mkBadApply"}

\* a host after setExpression( text, language ) with the n-th Engine, made by fn
SetUpHost(n, fn, text, language) ==
  LET e == EngineOf(n, fn, text)
      r == parse(e.kind, text, <<>>, <<>>, <<>>)
  IN  HostAfterSetExpression(
        [HostOnSetExpression(EmptyHost, text, language) EXCEPT !.engine = e], r)

\* The state after the embedding code has registered its Python engine under
\* the default language and another under "osl", the user has given each host
\* an expression (the first in either language, the second in the default
\* one) and has set each input connector to 5.
PassInit ==
  /\ gil = NoThread
  /\ pc = [t \in Threads |-> "idle"]
  /\ fr = [t \in Threads |-> EmptyFrame]
  /\ \E f \in PassFactories, l \in LanguageIds :
       LET r == [id \in LanguageIds |-> IF id = DefaultLanguage THEN "mkDoubler" ELSE f]
           set == [h \in Hosts |->
                    IF h = "h1" THEN [n |-> 1, text |-> "bc", language |-> l]
                    ELSE [n |-> 2, text |-> "b", language |-> DefaultLanguage]]
       IN  /\ creators = [id \in LanguageIds |-> ExpressionEngineCreator(r[id])]
           /\ lastFn = [id \in LanguageIds |-> [fn |-> r[id], earlier |-> {}]]
           /\ host = [h \in Hosts |->
                        SetUpHost(set[h].n, r[set[h].language], set[h].text,
                                  set[h].language)]
           /\ lastSet = [h \in Hosts |->
                           [text |-> set[h].text, language |-> set[h].language,
                            registered |-> TRUE,
                            declared |-> Range(PyParseOutputs(
                                          FactoryKind(r[set[h].language]), set[h].text)),
                            superseded |-> {}]]
  /\ regOrder = <<DefaultLanguage, "osl">>
  /\ nEngines = 2
  /\ hostLock = [h \in Hosts |-> NoThread]
  /\ plug = [h \in Hosts |-> [c \in Connectors |-> IF c = "A" THEN 5 ELSE 0]]
  /\ ret = NoRet
  /\ count = MaxCalls - PassCalls

PassSpec == PassInit /\ [][Next]_vars

\* the same with every thread scheduled in the end
FairPassSpec == PassSpec /\ \A t \in Threads : WF_vars(Step(t))

\* ------------------------------------------------------------------ claims
\* the threads inside an evaluation pass of a host, at execute or apply
InPass(t, h) ==
  /\ pc[t] \in {"ex_lock", "ex_py", "ap_lock", "ap_py"}
  /\ fr[t].host = h

\* the threads running Python: a bound call entered or about to return, an
\* engine factory, a parse, execute or apply override
InPython(t) == pc[t] \in {"se_enter", "py_ret", "fn_py", "parse_py", "ex_py", "ap_py"}

\* C1: a getExpression() made after setExpression(text, language) with a
\* language registered when that call was made, and with no other setExpression
\* begun since or under way, returns the pair (text, language) in that order.
C1_RoundTrip ==
  (ret.op = "getExpression" /\ ret.quiet /\ ret.after.registered)
    => ret.value = <<ret.after.text, ret.after.language>>

C1_Witness ==
  /\ ret.op = "getExpression"
  /\ ret.quiet
  /\ ret.after.registered
  /\ ret.after.text = "bc"
  /\ ret.value = <<"bc", "python">>

\* C2: the factory a create(languageId) invokes is the callable of the latest
\* registerEngine(languageId, ...) made before the lookup, never one registered
\* under that identifier earlier; the Engine the host gets is that factory's.
C2_LastRegistrationWins ==
  \A t \in Threads :
    /\ pc[t] \in {"fn_lock", "fn_py"} => fr[t].calledFn = fr[t].expect.fn
    /\ (fr[t].op = "setExpression" /\ fr[t].engine # NoEngine)
         => fr[t].engine.fn = fr[t].expect.fn

C2_Witness ==
  \E t \in Threads :
    /\ pc[t] = "parse_lock"
    /\ fr[t].expect.earlier \ {fr[t].expect.fn} # {}
    /\ fr[t].engine.fn = fr[t].expect.fn

\* C3: registeredEngines() holds every identifier registered so far, and each
\* exactly once, however often it was registered.
C3_EachIdentifierOnce ==
  ret.op = "registeredEngines" =>
    /\ Range(ret.value) = ret.registered
    /\ Len(ret.value) = Cardinality(ret.registered)

C3_Witness ==
  /\ ret.op = "registeredEngines"
  /\ ret.twice # {}
  /\ Len(ret.value) = 2

C5_UnknownLanguage ==
  /\ (ret.op = "setExpression" /\ ~ret.registered) => ret.err = UnknownLanguage
  /\ \A t \in Threads :
       (pc[t] \in {"se_finish", "se_restore"} /\ fr[t].op = "setExpression"
          /\ ~fr[t].registered)
         => /\ fr[t].err = UnknownLanguage
            /\ pc[t] = "se_finish" =>
                 /\ host[fr[t].host].state = "Empty"
                 /\ host[fr[t].host].engine = NoEngine
                 /\ host[fr[t].host].outputs = <<>>
                 /\ host[fr[t].host].inputs = <<>>
  /\ \A h \in Hosts : host[h].state = "Empty" => \A t \in Threads : ~InPass(t, h)
  /\ \A t \in Threads, h \in Hosts :
       InPass(t, h) => /\ fr[t].engine = host[h].engine
                       /\ fr[t].engine # NoEngine
                       /\ fr[t].engine.text = getExpression(host[h])[1]

C5_Witness ==
  /\ ret.op = "setExpression"
  /\ ~ret.registered
  /\ ret.err = UnknownLanguage
  /\ lastSet[ret.host].superseded # {}
  /\ host[ret.host].state = "Empty"

\* C6: a parse, execute or apply call on an Engine with no override of it (not
\* subclassed, or no such method) ends with the "method not defined" error and
\* the step it was part of fails; a pass whose Engine lacks apply fails at its
\* first apply, with nothing stored, though execute gave its result.
C6_NotImplementedFails ==
  /\ \A t \in Threads :
       (fr[t].call.name # "none"
          /\ ~(isSubclassed(fr[t].call.kind)
                 /\ methodOverride(fr[t].call.kind, fr[t].call.name)))
         => /\ fr[t].call.err = CoreException(NotDefinedMsg(fr[t].call.name))
            /\ fr[t].err = fr[t].call.err
            /\ pc[t] \in {"se_finish", "se_restore", "py_ret", "ev_finish"}
  /\ (ret.op = "apply"
        /\ ~(isSubclassed(ret.kind) /\ methodOverride(ret.kind, "apply")))
       => ret.err = CoreException(NotDefinedMsg("apply")) /\ ~ret.stored
  /\ (ret.op = "eval" /\ ~ret.skipped /\ ret.executed
        /\ ~methodOverride(ret.kind, "apply"))
       => ret.err = CoreException(NotDefinedMsg("apply")) /\ ret.applied = 0

C6_Witness ==
  /\ ret.op = "eval"
  /\ ret.kind = "NoApply"
  /\ ret.executed
  /\ ret.err = CoreException(NotDefinedMsg("apply"))

\* C8: a thread running a Python engine factory or a Python parse, execute or
\* apply override (or any other Python code) holds the interpreter lock, so at
\* most one thread runs Python at a time, whatever the hosts and Engines.
C8_MutualExclusion ==
  /\ \A t \in Threads : InPython(t) => gil = t
  /\ Cardinality({t \in Threads : InPython(t)}) <= 1

C8_Witness ==
  \E t \in Threads, u \in Threads :
    /\ pc[t] = "fn_py"
    /\ pc[u] = "ap_lock"
    /\ fr[t].host # fr[u].host

\* the places where a thread asks for the interpreter lock
AtLock(t) == pc[t] \in {"fn_lock", "parse_lock", "ex_lock", "ap_lock", "se_restore"}

\* C7: a setExpression made by a thread holding the interpreter lock has let
\* it go before the core, the Engine factory and parse are entered; no thread
\* asks for the lock while holding it; and the call gets the lock for its
\* factory and its parse and returns to its caller.
C7_ReleasedBeforeParse ==
  /\ [](\A t \in Threads :
          /\ (fr[t].op = "setExpression"
                /\ pc[t] \in {"se_core", "se_create", "fn_lock", "parse_lock", "se_finish"})
               => gil # t
          /\ AtLock(t) => gil # t)
  /\ \A t \in Threads : (pc[t] = "se_enter") ~> (pc[t] = "py_ret")

C7_Witness ==
  \E t \in Threads, u \in Threads :
    /\ pc[t] = "se_core"
    /\ hostLock[fr[t].host] = u
    /\ pc[u] = "ap_py"
    /\ gil = u

\* C9: a host in ParseFailed is inert.  No thread is ever inside an evaluation
\* pass (execute or apply) of a host in ParseFailed; the host leaves ParseFailed
\* only by the core of a setExpression beginning on it; an evaluation request
\* made for it is skipped and changes no connector value, and no step changes
\* one of its output connectors while it is in ParseFailed.
C9_ParseFailedInert ==
  /\ [](\A h \in Hosts :
          host[h].state = "ParseFailed" => \A t \in Threads : ~InPass(t, h))
  /\ [][\A h \in Hosts :
          host[h].state = "ParseFailed" =>
            /\ host'[h].state # "ParseFailed" =>
                 \E t \in Threads :
                   /\ fr[t].op = "setExpression" /\ fr[t].host = h
                   /\ pc[t] = "se_core" /\ pc'[t] = "se_create"
            /\ (count' # count /\ ret'.op = "eval" /\ ret'.host = h) =>
                 (ret'.skipped /\ plug' = plug /\ pc' = pc)
            /\ \A c \in Connectors \ {"A"} : plug'[h][c] = plug[h][c]]_vars

C9_Witness ==
  /\ ret.op = "eval"
  /\ ret.skipped
  /\ host[ret.host].state = "ParseFailed"
  /\ host[ret.host].text = "bc"
  /\ plug[ret.host] = [c \in Connectors |-> 0]

C12_FailedPassChangesNothing ==
  (ret.op = "eval" /\ ~ret.skipped /\ ret.err # NoError) =>
    \A c \in Connectors : plug[ret.host][c] = ret.before[c]

\* C13: a pass is local to its host.  No step of a pass, failing or not,
\* changes another host (its state, Engine, dependencies, connectors,
\* ownership) or another thread's call; and a pass begun with a working Engine
\* is carried through whatever happens to the passes of other hosts: it ends
\* without error, every output applied, the first output twice the input.
C13_FailureIsLocal ==
  /\ [][\A t \in Threads :
          (fr[t].op = "eval" /\ pc'[t] # pc[t]) =>
            /\ \A g \in Hosts \ {fr[t].host} :
                 /\ host'[g] = host[g]
                 /\ plug'[g] = plug[g]
                 /\ hostLock'[g] = hostLock[g]
            /\ \A u \in Threads \ {t} : pc'[u] = pc[u] /\ fr'[u] = fr[u]]_vars
  /\ \A t \in Threads :
       (pc[t] = "ex_lock" /\ fr[t].engine.kind = "Doubler")
         ~> (/\ ret.op = "eval" /\ ret.thread = t
             /\ ~ret.skipped
             /\ ret.err = NoError
             /\ ret.applied = Len(host[ret.host].outputs)
             /\ plug[ret.host]["B"] = 2 * plug[ret.host]["A"])

C13_Witness ==
  \E u \in Threads :
    /\ pc[u] = "ev_finish"
    /\ fr[u].err # NoError
    /\ fr[u].host = "h1"
    /\ ret.op = "apply"
    /\ ret.host = "h2"
    /\ ret.stored
    /\ plug["h2"]["B"] = 10

\* C14: passes of two hosts interleaved on two threads give each host what a
\* pass of that host alone gives, so what the two passes give one after the
\* other in either order: a pass that ends without error leaves the host's
\* input as it was, its first output twice the input it began with, its
\* second output (if it has one) one more, and every other connector of the
\* host as it was when the pass began.  Two passes under way at once are of
\* different hosts and use different Engine instances.
C14_InterleavedAsSequential ==
  /\ (ret.op = "eval" /\ ~ret.skipped /\ ret.err = NoError) =>
       LET h == ret.host
           outs == Range(host[h].outputs)
       IN  /\ plug[h]["A"] = ret.before["A"]
           /\ plug[h]["B"] = 2 * ret.before["A"]
           /\ plug[h]["C"] = IF "C" \in outs THEN 2 * ret.before["A"] + 1
                             ELSE ret.before["C"]
  /\ \A t \in Threads, u \in Threads :
       (t # u /\ fr[t].op = "eval" /\ fr[u].op = "eval") =>
         /\ fr[t].host # fr[u].host
         /\ fr[t].engine.id # fr[u].engine.id
         /\ \A c \in Connectors \ Range(fr[t].outputs) :
              plug[fr[t].host][c] = fr[t].before[c]

C14_Witness ==
  \E u \in Threads :
    /\ pc[u] = "ev_finish"
    /\ fr[u].host = "h2"
    /\ fr[u].err = NoError
    /\ fr[u].engine.kind = "Doubler"
    /\ ret.op = "eval"
    /\ ret.host = "h1"
    /\ ret.kind = "Doubler"
    /\ ret.err = NoError
    /\ host["h1"].language = host["h2"].language
    /\ plug["h1"] = [c \in Connectors |-> CASE c = "A" -> 5 [] c = "B" -> 10 [] c = "C" -> 11]
    /\ plug["h2"] = [c \in Connectors |-> CASE c = "A" -> 5 [] c = "B" -> 10 [] c = "C" -> 0]

UnderLock(t) == pc[t] \in {"fn_py", "parse_py", "ex_py", "ap_py"}

\* C17: lock balance.  The factory call and parse, execute and apply leave the
\* calling thread holding the interpreter lock exactly if it held it on entry,
\* on normal return, on a translated Python exception and on the "method not
\* defined" exits; the bound setExpression, entered with the lock held, has it
\* again when it returns, with or without error.  So a thread in the core or
\* outside any call does not hold the lock.
C17_LockBalance ==
  /\ [](\A t \in Threads :
          /\ pc[t] \in {"se_enter", "py_ret"} => gil = t
          /\ pc[t] \in {"idle", "se_core", "se_create", "se_finish", "se_restore",
                        "ev_finish", "fn_lock", "parse_lock", "ex_lock", "ap_lock"}
               => gil # t)
  /\ [][\A t \in Threads :
          /\ (AtLock(t) /\ pc[t] # "se_restore" /\ UnderLock(t)')
               => (gil' = t /\ fr'[t].nested = (gil = t))
          /\ (AtLock(t) /\ pc[t] # "se_restore" /\ pc'[t] # pc[t] /\ ~UnderLock(t)')
               => (gil' = gil /\ fr'[t].err = CoreException(NotDefinedMsg(fr'[t].call.name)))
          /\ (UnderLock(t) /\ pc'[t] # pc[t])
               => ((gil' = t) = fr[t].nested)
          /\ (pc[t] = "se_enter" /\ pc'[t] # pc[t]) => gil' # t
          /\ (pc[t] = "se_restore" /\ pc'[t] # pc[t]) => gil' = t]_vars

C17_Witness ==
  \E t \in Threads :
    /\ pc[t] = "ev_finish"
    /\ fr[t].call = [name |-> "apply", kind |-> "BadApply",
                     err |-> CoreException("cannot set value")]
    /\ fr[t].applied = 1
    /\ gil = NoThread

\* C18: when the Python override of parse, execute or apply exists and raises,
\* the call ends with the core exception that carries the message of the
\* Python exception: not with a normal return, and not with the "method not
\* defined" error; the setExpression or the pass it was part of fails with
\* that error, and a raising apply has stored nothing.
C18_PythonErrorTranslated ==
  /\ \A t \in Threads :
       LET k == fr[t].call IN
       (k.name \in {"parse", "execute"} /\ isSubclassed(k.kind)
          /\ methodOverride(k.kind, k.name) /\ PyRaises(k.kind, k.name))
         => /\ k.err.type = "IECore::Exception"
            /\ k.err.msg = PyRaised(k.kind, k.name).msg
            /\ k.err.msg # NotDefinedMsg(k.name)
            /\ fr[t].err = k.err
            /\ pc[t] \in {"se_finish", "se_restore", "py_ret", "ev_finish"}
  /\ (ret.op = "apply" /\ isSubclassed(ret.kind) /\ methodOverride(ret.kind, "apply")
        /\ PyApplyRaises(ret.kind, ret.plug))
       => /\ ret.err.type = "IECore::Exception"
          /\ ret.err.msg = PyRaised(ret.kind, "apply").msg
          /\ ret.err.msg # NotDefinedMsg("apply")
          /\ ~ret.stored
          /\ pc[ret.thread] = "ev_finish"
          /\ fr[ret.thread].err = ret.err
  /\ (ret.op = "setExpression" /\ ret.registered /\ ret.err # NoError
        /\ fr[ret.thread].call.kind = "BadParse")
       => ret.err = CoreException("invalid syntax")
  /\ (ret.op = "eval" /\ ~ret.skipped /\ ret.kind = "BadExec")
       => ret.err = CoreException("division by zero") /\ ~ret.executed

C18_Witness ==
  /\ ret.op = "eval"
  /\ ~ret.skipped
  /\ ret.kind = "BadExec"
  /\ ret.err = CoreException("division by zero")
  /\ plug[ret.host] = ret.before

\* C19: a fresh Engine for every setExpression.  When the core of a
\* setExpression begins, the host's Engine and dependencies are dropped and
\* the host is Empty; Engine instances come only from a factory call inside a
\* setExpression, one per call, each a new instance (not one made before) of
\* the callable the lookup gave, and the host takes it; parse runs on that
\* instance, execute and apply on the instance the host holds; a thread never
\* takes up an instance other than the one its host then holds; and no
\* registration changes the instance a host holds.
C19_FreshEngine ==
  /\ [](/\ \A h \in Hosts : host[h].engine.id <= nEngines
        /\ \A t \in Threads :
             /\ fr[t].engine.id <= nEngines
             /\ pc[t] \in {"parse_lock", "parse_py"} =>
                  /\ fr[t].engine # NoEngine
                  /\ fr[t].engine = host[fr[t].host].engine
                  /\ fr[t].engine.text = fr[t].text
             /\ (pc[t] = "se_finish" /\ fr[t].registered) => fr[t].engine # NoEngine
             /\ \A h \in Hosts : InPass(t, h) => fr[t].engine = host[h].engine)
  /\ [][/\ \A t \in Threads :
             /\ (pc[t] = "se_core" /\ pc'[t] = "se_create") =>
                  /\ host'[fr[t].host].engine = NoEngine
                  /\ host'[fr[t].host].state = "Empty"
                  /\ host'[fr[t].host].inputs = <<>>
                  /\ host'[fr[t].host].outputs = <<>>
                  /\ host'[fr[t].host].contextVariables = <<>>
                  /\ \A u \in Threads :
                       (host[fr[t].host].engine # NoEngine
                          /\ pc'[u] \in {"parse_lock", "parse_py", "ex_lock", "ex_py",
                                         "ap_lock", "ap_py"})
                         => fr'[u].engine # host[fr[t].host].engine
             /\ (fr'[t].engine # fr[t].engine /\ fr'[t].engine # NoEngine) =>
                  fr'[t].engine = host'[fr'[t].host].engine
        /\ nEngines' # nEngines =>
             /\ nEngines' = nEngines + 1
             /\ \E t \in Threads :
                  /\ pc[t] = "fn_py" /\ pc'[t] = "parse_lock"
                  /\ fr[t].engine = NoEngine
                  /\ fr'[t].engine.id = nEngines'
                  /\ fr'[t].engine.fn = fr[t].calledFn
                  /\ host'[fr[t].host].engine = fr'[t].engine
        /\ \A h \in Hosts :
             host'[h].engine # host[h].engine =>
               /\ creators' = creators
               /\ \E t \in Threads :
                    /\ fr[t].op = "setExpression" /\ fr[t].host = h
                    /\ pc'[t] # pc[t]]_vars

C19_Witness ==
  \E t \in Threads :
    /\ pc[t] = "parse_py"
    /\ fr[t].host = "h1"
    /\ fr[t].engine.id = 3
    /\ host["h1"].engine = fr[t].engine
    /\ lastSet["h1"].superseded # {}

\* the parts of the hosts that execute and apply must leave alone
HostFrame(hs) ==
  [h \in Hosts |-> [text |-> hs[h].text, language |-> hs[h].language,
                    inputs |-> hs[h].inputs, outputs |-> hs[h].outputs,
                    contextVariables |-> hs[h].contextVariables,
                    engine |-> hs[h].engine]]

\* C20: within an evaluation pass connector values change in apply steps only.
\* The execute call changes no connector value, no host's text, language,
\* dependencies or Engine, and not the context it was given; each apply call
\* changes at most the one connector it is given, on its own host, to the value
\* it is given, and nothing else of any host; and while a pass or a
\* setExpression owns a host, nothing but an apply of that pass changes one of
\* its connectors.
C20_OnlyApplyWrites ==
  [][/\ \A t \in Threads :
          /\ (pc[t] \in {"ex_lock", "ex_py", "ap_lock"} /\ pc'[t] # pc[t]) =>
               /\ plug' = plug
               /\ HostFrame(host') = HostFrame(host)
               /\ pc'[t] # "ev_finish" => fr'[t].context = fr[t].context
          /\ (pc[t] = "ap_py" /\ pc'[t] # pc[t]) =>
               /\ HostFrame(host') = HostFrame(host)
               /\ fr'[t].context = fr[t].context
               /\ \A h \in Hosts, c \in Connectors :
                    plug'[h][c] # plug[h][c] =>
                      /\ h = fr[t].host
                      /\ c = fr[t].outputs[fr[t].i]
                      /\ plug'[h][c] = fr[t].result[fr[t].i]
               /\ ret'.stored =>
                    plug'[fr[t].host][fr[t].outputs[fr[t].i]] = fr[t].result[fr[t].i]
     /\ \A h \in Hosts :
          (hostLock[h] # NoThread /\ plug'[h] # plug[h]) =>
            /\ pc[hostLock[h]] = "ap_py"
            /\ fr[hostLock[h]].host = h
            /\ pc'[hostLock[h]] # "ap_py"]_vars

C20_Witness ==
  /\ ret.op = "apply"
  /\ ret.stored
  /\ ret.plug = "C"
  /\ fr[ret.thread].before = [c \in Connectors |-> IF c = "A" THEN 5 ELSE 0]
  /\ plug[ret.host] = [c \in Connectors |-> CASE c = "A" -> 5 [] c = "B" -> 10 [] c = "C" -> 11]
====
